---------------------------- MODULE Spec2Model ----------------------------
(***************************************************************************)
(* Model of the lab measurement-error bot (Rasa custom actions).           *)
(*                                                                         *)
(* The modelled module is src/actions/actions.py: the four handlers        *)
(* (ActionStoreMeasurements, ActionStoreInstrumentError,                   *)
(* ActionCalcMeasurementError, ActionResetCalc), the helpers               *)
(* extract_numbers and stats, and the SQLite run store (create_run,        *)
(* insert_measurements, save_results).                                     *)
(*                                                                         *)
(* Text is a sequence of lexemes: a numeric literal (one match of the      *)
(* extract_numbers pattern), a word, or a run of whitespace.  The          *)
(* Mongolian keywords are written in Latin transliteration:                *)
(*   bagaj, tohooromj, masshtab   the instrument markers                   *)
(*   algas, skip, medehgui, baihgui   the skip keywords                    *)
(* The keywords are the words src/actions.py spells in Cyrillic;           *)
(* src/actions/actions.py holds the same literals mis-decoded (UTF-8 read  *)
(* as Mac Roman), and the model reads them as the words they encode.       *)
(* A Python float is a fixed-point number counted in units of 1/Scale; a   *)
(* power whose result leaves the float range raises OverflowError, as      *)
(* float.__pow__ does.                                                     *)
(***************************************************************************)
EXTENDS Integers, Sequences, FiniteSets, TLC

\* ------------------------------------------------------------------ bounds
\* fixed-point resolution of a float
Scale == 4
\* the literal of a number so large that its square leaves the float range
Big == 40
\* largest float, in squared units: x ** 2 raises when x*x exceeds it
FloatMax == 100
\* the run store holds at most MaxRuns lab_runs rows (then the disk is full)
MaxRuns == 2
\* direct store calls (SpecStore): at most MaxSaves results ids are handed out
MaxSaves == 3

\* ------------------------------------------------------------ Python values
\* Optional values: None is the empty tuple, a present value x is <<x>>.
None == <<>>
Some(x) == <<x>>

Num(v) == [t |-> "num", v |-> v]
Word(w) == [t |-> w, v |-> 0]
SP == Word(" ")
\* Slot values of instrument_error: a float, or a string holding no number
FloatVal(x) == [t |-> "float", v |-> x]
NotANumber == [t |-> "str", v |-> 0]

IsNum(tok) == tok.t = "num"
IsSpace(tok) == tok.t = " "

\* float(literal): the value of a numeric literal, in units of 1/Scale
Float(v) == v * Scale

Abs(x) == IF x < 0 THEN -x ELSE x

\* str.lower(), lexeme by lexeme
LowerTok(tok) ==
    CASE tok.t = "BAGAJ" -> Word("bagaj")
      [] tok.t = "SKIP" -> Word("skip")
      [] OTHER -> tok

Lower(text) == [i \in 1..Len(text) |-> LowerTok(text[i])]

\* str.strip(): whitespace removed at both ends
RECURSIVE LStrip(_)
LStrip(text) ==
    IF text # <<>> /\ IsSpace(Head(text)) THEN LStrip(Tail(text)) ELSE text

RECURSIVE RStrip(_)
RStrip(text) ==
    IF text # <<>> /\ IsSpace(text[Len(text)])
    THEN RStrip(SubSeq(text, 1, Len(text) - 1))
    ELSE text

Strip(text) == RStrip(LStrip(text))

\* str.find(key): 0-based position of the first occurrence, -1 when absent
Find(text, key) ==
    IF \E i \in 1..Len(text) : text[i].t = key
    THEN (CHOOSE i \in 1..Len(text) :
            /\ text[i].t = key
            /\ \A j \in 1..(i - 1) : text[j].t # key) - 1
    ELSE -1

\* key in text
Contains(text, key) == \E i \in 1..Len(text) : text[i].t = key

\* text[:i] and text[i:]
Before(text, i) == SubSeq(text, 1, i)
From(text, i) == SubSeq(text, i + 1, Len(text))

\* "x or ''" on an optional string
OrEmpty(opt) == IF opt = None THEN <<>> ELSE opt[1]

\* --------------------------------------------------------- extract_numbers
RECURSIVE FindAll(_)
FindAll(text) ==
    IF text = <<>> THEN <<>>
    ELSE IF IsNum(Head(text)) THEN <<Float(Head(text).v)>> \o FindAll(Tail(text))
    ELSE FindAll(Tail(text))

extract_numbers(text) == IF text = <<>> THEN <<>> ELSE FindAll(text)

\* ------------------------------------------------------------------- stats
RECURSIVE ISqrtIter(_, _)
ISqrtIter(x, r) ==
    LET r2 == (r + (x \div r)) \div 2
    IN  IF r2 >= r THEN r ELSE ISqrtIter(x, r2)

\* math.sqrt on fixed-point numbers: the integer square root
ISqrt(x) == IF x <= 0 THEN 0 ELSE ISqrtIter(x, x)

\* x ** 2 raises OverflowError when the result leaves the float range
Pow2Raises(x) == x * x > FloatMax * Scale * Scale
Pow2(x) == x * x

RECURSIVE Sum(_)
Sum(values) == IF values = <<>> THEN 0 ELSE Head(values) + Sum(Tail(values))

SqDevs(values, xbar) == [i \in 1..Len(values) |-> Pow2(values[i] - xbar)]

NoStats == [raised |-> FALSE, xbar |-> 0, s |-> 0, s_mean |-> 0]

\* (mutant) the variance is divided by n
stats_population(values) ==
    LET n == Len(values)
        xbar == Sum(values) \div n
        var == Sum(SqDevs(values, xbar)) \div n
        s == ISqrt(var)
    IN  IF n = 0 THEN NoStats
        ELSE IF n < 2 THEN [NoStats EXCEPT !.xbar = xbar]
        ELSE IF \E i \in 1..n : Pow2Raises(values[i] - xbar)
             THEN [NoStats EXCEPT !.raised = TRUE]
        ELSE [raised |-> FALSE, xbar |-> xbar, s |-> s,
              s_mean |-> (s * Scale) \div ISqrt(n * Scale * Scale)]

\* stats(values) -> (xbar, s, s_mean); raised: (x - xbar) ** 2 overflowed
stats(values) ==
    LET n == Len(values)
        xbar == Sum(values) \div n
        var == Sum(SqDevs(values, xbar)) \div (n - 1)
        s == ISqrt(var)
    IN  IF n = 0 THEN NoStats
        ELSE IF n < 2 THEN [NoStats EXCEPT !.xbar = xbar]
        ELSE IF \E i \in 1..n : Pow2Raises(values[i] - xbar)
             THEN [NoStats EXCEPT !.raised = TRUE]
        ELSE [raised |-> FALSE, xbar |-> xbar, s |-> s,
              s_mean |-> (s * Scale) \div ISqrt(n * Scale * Scale)]

\* ------------------------------------------------------------ the run store
\* One SQLite file: lab_runs (a row's id is its position, AUTOINCREMENT from 1,
\* rows are never deleted), measurements and results (sets of rows, each with
\* its AUTOINCREMENT id), and the two id counters of sqlite_sequence.
\* created_at is not modelled: nothing reads it back.
EmptyDb ==
    [lab_runs |-> <<>>, measurements |-> {}, results |-> {},
     meas_seq |-> 0, res_seq |-> 0]

\* (mutant) the id is read before the INSERT ran: the previous row's id
lastrowid_stale(d) == Len(d.lab_runs)

\* cur.lastrowid of the INSERT of create_run
lastrowid(d) == Len(d.lab_runs) + 1

\* (mutant) INSERT OR REPLACE on the newest id: a re-run overwrites the run
create_run_overwrite(d, sender_id, measurements_text, instrument_error) ==
    LET row == [sender_id |-> sender_id,
                measurements_text |-> measurements_text,
                instrument_error |-> instrument_error]
    IN  IF d.lab_runs = <<>>
        THEN [d EXCEPT !.lab_runs = <<row>>]
        ELSE [d EXCEPT !.lab_runs[Len(d.lab_runs)] = row]

\* (mutant) the INSERT of create_run is never committed
create_run_uncommitted(d, sender_id, measurements_text, instrument_error) == d

create_run(d, sender_id, measurements_text, instrument_error) ==
    [d EXCEPT !.lab_runs =
        Append(@, [sender_id |-> sender_id,
                   measurements_text |-> measurements_text,
                   instrument_error |-> instrument_error])]

\* (mutant) idx counts from 1
insert_measurements_one_based(d, run_id, values) ==
    [d EXCEPT
        !.measurements = @ \cup
            {[id |-> d.meas_seq + i, run_id |-> run_id,
              value |-> values[i], idx |-> i] : i \in 1..Len(values)},
        !.meas_seq = @ + Len(values)]

insert_measurements(d, run_id, values) ==
    [d EXCEPT
        !.measurements = @ \cup
            {[id |-> d.meas_seq + i, run_id |-> run_id,
              value |-> values[i], idx |-> i - 1] : i \in 1..Len(values)},
        !.meas_seq = @ + Len(values)]

\* the columns of a results row, from the arguments of save_results
ResultRow(id, run_id, f) ==
    [id |-> id, run_id |-> run_id, n |-> f.n, xbar |-> f.xbar, s |-> f.s,
     s_mean |-> f.s_mean, delta_stat |-> f.delta_stat,
     delta_total |-> f.delta_total, rel_percent |-> f.rel_percent,
     used_instr |-> IF f.used_instr THEN 1 ELSE 0]

\* (mutant) a plain INSERT without the UNIQUE constraint: rows pile up
save_results_append(d, run_id, f) ==
    [d EXCEPT
        !.results = @ \cup {ResultRow(d.res_seq + 1, run_id, f)},
        !.res_seq = @ + 1]

\* INSERT OR REPLACE under UNIQUE(run_id): the row in conflict is deleted,
\* the new row takes a fresh id
save_results(d, run_id, f) ==
    [d EXCEPT
        !.results = {r \in @ : r.run_id # run_id}
                        \cup {ResultRow(d.res_seq + 1, run_id, f)},
        !.res_seq = @ + 1]

\* ------------------------------------------------- what a handler returns
\* dispatcher.utter_message: a message has a kind, the numbers it shows and,
\* for the report, the report's lines.
Msg(kind, nums) == [kind |-> kind, nums |-> nums, report |-> None]

\* the events a run() returns
SlotSet(name, value) == [event |-> "slot", name |-> name, value |-> value]
FollowupAction(name) == [event |-> "followup", name |-> name, value |-> None]

\* a run() that returned: the messages it uttered and its events
Returned(messages, events) ==
    [messages |-> messages, events |-> events, fault |-> FALSE]
\* a run() that raised: the action server answers with an error, the messages
\* and events of the call are lost
Raised == [messages |-> <<>>, events |-> <<>>, fault |-> TRUE]

\* ------------------------------------------------ ActionStoreMeasurements
MarkerKeys == <<"bagaj", "tohooromj", "masshtab">>

\* the for loop over the keys: the first key of the list that occurs decides
cut_idx(lower) ==
    LET found == {k \in 1..Len(MarkerKeys) : Find(lower, MarkerKeys[k]) # -1}
    IN  IF found = {} THEN None
        ELSE Some(Find(lower, MarkerKeys[CHOOSE k \in found :
                                            \A j \in found : k <= j]))

meas_part(text) ==
    IF cut_idx(Lower(text)) = None THEN text
    ELSE Before(text, cut_idx(Lower(text))[1])

instr_part(text) ==
    IF cut_idx(Lower(text)) = None THEN <<>>
    ELSE From(text, cut_idx(Lower(text))[1])

\* (mutant) the text is stored before the numbers are looked for
StoreMeasurementsRun_stores_first(message) ==
    LET text == Strip(OrEmpty(message))
        nums == extract_numbers(meas_part(text))
        stored == SlotSet("measurements_text", Some(Strip(meas_part(text))))
    IN  IF nums = <<>>
        THEN Returned(<<Msg("no_measurements", <<>>)>>, <<stored>>)
        ELSE Returned(<<Msg("understood", nums), Msg("ask_instr", <<>>)>>, <<stored>>)

\* run(): message is tracker.latest_message.get("text"), None when missing
StoreMeasurementsRun(message) ==
    LET text == Strip(OrEmpty(message))
        nums == extract_numbers(meas_part(text))
        instr_nums == extract_numbers(instr_part(text))
        stored == SlotSet("measurements_text", Some(Strip(meas_part(text))))
        understood == Msg("understood", nums)
    IN  IF nums = <<>>
        THEN Returned(<<Msg("no_measurements", <<>>)>>, <<>>)
        ELSE IF instr_nums # <<>>
        THEN Returned(
                <<understood, Msg("instr_taken", <<Abs(instr_nums[1])>>)>>,
                <<stored,
                  SlotSet("instrument_error", Some(FloatVal(Abs(instr_nums[1])))),
                  FollowupAction("action_calc_measurement_error")>>)
        ELSE Returned(<<understood, Msg("ask_instr", <<>>)>>, <<stored>>)

\* --------------------------------------------- ActionStoreInstrumentError
SkipKeys == <<"algas", "skip", "medehgui", "baihgui">>

\* (mutant) the skip branch forgets SlotSet("instrument_error", None)
StoreInstrumentErrorRun_skip_keeps(message) ==
    LET text == Lower(Strip(OrEmpty(message)))
        nums == extract_numbers(text)
    IN  IF \E k \in 1..Len(SkipKeys) : Contains(text, SkipKeys[k])
        THEN Returned(<<Msg("skipped", <<>>)>>,
                      <<FollowupAction("action_calc_measurement_error")>>)
        ELSE IF nums = <<>>
        THEN Returned(<<Msg("no_instr_number", <<>>)>>, <<>>)
        ELSE Returned(<<Msg("instr_value", <<Abs(nums[1])>>),
                        Msg("calc_starting", <<>>)>>,
                      <<SlotSet("instrument_error", Some(FloatVal(Abs(nums[1])))),
                        FollowupAction("action_calc_measurement_error")>>)

\* (mutant) the first number is stored with its sign
StoreInstrumentErrorRun_signed(message) ==
    LET text == Lower(Strip(OrEmpty(message)))
        nums == extract_numbers(text)
    IN  IF \E k \in 1..Len(SkipKeys) : Contains(text, SkipKeys[k])
        THEN Returned(<<Msg("skipped", <<>>)>>,
                      <<SlotSet("instrument_error", None),
                        FollowupAction("action_calc_measurement_error")>>)
        ELSE IF nums = <<>>
        THEN Returned(<<Msg("no_instr_number", <<>>)>>, <<>>)
        ELSE Returned(<<Msg("instr_value", <<nums[1]>>),
                        Msg("calc_starting", <<>>)>>,
                      <<SlotSet("instrument_error", Some(FloatVal(nums[1]))),
                        FollowupAction("action_calc_measurement_error")>>)

StoreInstrumentErrorRun(message) ==
    LET text == Lower(Strip(OrEmpty(message)))
        nums == extract_numbers(text)
    IN  IF \E k \in 1..Len(SkipKeys) : Contains(text, SkipKeys[k])
        THEN Returned(<<Msg("skipped", <<>>)>>,
                      <<SlotSet("instrument_error", None),
                        FollowupAction("action_calc_measurement_error")>>)
        ELSE IF nums = <<>>
        THEN Returned(<<Msg("no_instr_number", <<>>)>>, <<>>)
        ELSE Returned(<<Msg("instr_value", <<Abs(nums[1])>>),
                        Msg("calc_starting", <<>>)>>,
                      <<SlotSet("instrument_error", Some(FloatVal(Abs(nums[1])))),
                        FollowupAction("action_calc_measurement_error")>>)

\* ------------------------------------------------------- ActionResetCalc
\* (mutant) only measurements_text is cleared
ResetCalcRun_keeps_instr ==
    Returned(<<Msg("reset_ack", <<>>)>>, <<SlotSet("measurements_text", None)>>)

ResetCalcRun ==
    Returned(<<Msg("reset_ack", <<>>)>>,
             <<SlotSet("measurements_text", None),
               SlotSet("instrument_error", None)>>)

\* -------------------------------------------- ActionCalcMeasurementError
\* float(instr) succeeds on a number and raises ValueError on other strings
FloatConverts(instr) == instr # None /\ instr[1].t = "float"

\* does the try block (instr is not None) run through without raising?
InstrUsable(delta_stat, instr) ==
    /\ FloatConverts(instr)
    /\ ~Pow2Raises(delta_stat)
    /\ ~Pow2Raises(instr[1].v)

\* math.sqrt(delta_stat**2 + instr_f**2)
Quadrature(delta_stat, instr_f) == ISqrt(Pow2(delta_stat) + Pow2(instr_f))

\* abs(delta_total / xbar) * 100 if xbar != 0 else 0.0
RelPercent(delta_total, xbar) ==
    IF xbar # 0 THEN ((Abs(delta_total) * Scale) \div Abs(xbar)) * 100 ELSE 0

\* the locals of run() once the statistics are computed, from the two slots
CalcLocals(sl) ==
    LET meas_text == OrEmpty(sl.measurements_text)
        values == extract_numbers(meas_text)
        st == stats(values)
        delta_stat == st.s_mean
        instr == sl.instrument_error
        used_instr == InstrUsable(delta_stat, instr)
        delta_total == IF used_instr THEN Quadrature(delta_stat, instr[1].v)
                       ELSE delta_stat
    IN  [meas_text |-> meas_text, values |-> values, n |-> Len(values),
         raised |-> st.raised, xbar |-> st.xbar, s |-> st.s,
         s_mean |-> st.s_mean, delta_stat |-> delta_stat,
         instr_f |-> IF used_instr THEN Some(instr[1].v) ELSE None,
         used_instr |-> used_instr, delta_total |-> delta_total,
         rel_percent |-> RelPercent(delta_total, st.xbar),
         run_id |-> 0]

NoCalc == CalcLocals([measurements_text |-> None, instrument_error |-> None])

\* the report: its labelled lines (fmt keeps every value of the model, which
\* has fewer than six significant digits) and the appended DB warning
Report(loc, warning) ==
    [kind |-> "report", nums |-> <<>>,
     report |-> Some([n |-> loc.n, xbar |-> loc.xbar, s |-> loc.s,
                      s_mean |-> loc.s_mean, delta_stat |-> loc.delta_stat,
                      delta_instr |-> IF loc.used_instr THEN loc.instr_f ELSE None,
                      delta_total |-> loc.delta_total,
                      no_instr_note |-> ~loc.used_instr,
                      rel_percent |-> loc.rel_percent,
                      answer |-> <<loc.xbar, loc.delta_total>>,
                      warning |-> warning])]

\* the arguments run() hands to save_results
ResultFields(loc) ==
    [n |-> loc.n, xbar |-> loc.xbar, s |-> loc.s, s_mean |-> loc.s_mean,
     delta_stat |-> loc.delta_stat, delta_total |-> loc.delta_total,
     rel_percent |-> loc.rel_percent, used_instr |-> loc.used_instr]

\* ------------------------------------------------------------------- state
VARIABLES
    slots,   \* tracker slots of each sender: measurements_text, instrument_error
    pc,      \* where each sender's conversation stands (see Positions)
    calc,    \* the locals of a running ActionCalcMeasurementError.run
    resp,    \* what the last finished handler of each sender answered
    turn,    \* the handlers run since the sender's last user message
    db,      \* the SQLite run store
    log      \* the save_results calls made directly on the store (SpecStore)

vars == <<slots, pc, calc, resp, turn, db, log>>

\* "idle": waiting for a user message; "followup": a handler asked for
\* action_calc_measurement_error; the other three: the calculation stands
\* before that persistence call
Positions ==
    {"idle", "followup", "create_run", "insert_measurements", "save_results"}

Senders == {"a", "b"}

STORE == "action_store_measurements"
INSTR == "action_store_instrument_error"
CALC == "action_calc_measurement_error"
RESET == "action_reset_calc"

\* ---------------------------------------------------------------- inputs
\* the user messages of the dialogue: None (no text) and texts covering the
\* branches of the two store handlers
Messages ==
    { None,
      Some(<<>>),
      Some(<<Word("hi")>>),
      Some(<<Num(3), SP, Num(-1)>>),
      Some(<<SP, Num(-3), SP, Word("BAGAJ"), SP, Num(-3), SP, Num(1)>>),
      Some(<<Num(3), SP, Num(-1), SP, Word("bagaj")>>),
      Some(<<Word("bagaj"), SP, Num(3)>>),
      Some(<<SP, Word("SKIP"), SP>>),
      Some(<<Num(Big), SP, Num(1)>>),
      Some(<<Num(-3), Word("masshtab"), Num(Big)>>) }

\* messages that name more than one instrument marker
SplitMessages ==
    { Some(<<Num(3), Word("masshtab"), Num(1), Word("bagaj"), Num(-1)>>),
      Some(<<Num(3), Word("bagaj"), Num(1), Word("masshtab"), Num(-1)>>),
      Some(<<Word("tohooromj"), Num(3), Word("bagaj"), Num(1)>>) }

\* the messages of two concurrent senders: each sends its own measurements
ConcMessages(s) ==
    IF s = "a"
    THEN { Some(<<Num(3), SP, Word("bagaj"), Num(-3)>>) }
    ELSE { Some(<<Num(-1), SP, Num(1)>>) }

\* slot values a tracker may hand to a handler (restored or set by the
\* dialogue layer): texts with and without numbers, numbers of either sign,
\* a string that is no number
AnySlots ==
    [measurements_text : {None, Some(<<Word("hi")>>), Some(<<Num(3), SP, Num(-1)>>)},
     instrument_error : {None, Some(FloatVal(Float(3))), Some(FloatVal(Float(-3))),
                         Some(NotANumber)}]

EmptySlots == [measurements_text |-> None, instrument_error |-> None]

NoResp == [action |-> "none", messages |-> <<>>, events |-> <<>>, fault |-> FALSE]

Init ==
    /\ slots = [s \in Senders |-> EmptySlots]
    /\ pc = [s \in Senders |-> "idle"]
    /\ calc = [s \in Senders |-> NoCalc]
    /\ resp = [s \in Senders |-> NoResp]
    /\ turn = [s \in Senders |-> <<>>]
    /\ db = EmptyDb
    /\ log = <<>>

InitAnySlots ==
    /\ \E sl \in AnySlots : slots = [s \in Senders |-> IF s = "a" THEN sl ELSE EmptySlots]
    /\ pc = [s \in Senders |-> "idle"]
    /\ calc = [s \in Senders |-> NoCalc]
    /\ resp = [s \in Senders |-> NoResp]
    /\ turn = [s \in Senders |-> <<>>]
    /\ db = EmptyDb
    /\ log = <<>>

\* ------------------------------------------- the dialogue layer (Rasa)
\* the tracker applies the SlotSet events of a handler in order
RECURSIVE ApplyEvents(_, _)
ApplyEvents(sl, events) ==
    IF events = <<>> THEN sl
    ELSE LET e == Head(events)
             next == IF e.event # "slot" THEN sl
                     ELSE IF e.name = "measurements_text"
                     THEN [sl EXCEPT !.measurements_text = e.value]
                     ELSE [sl EXCEPT !.instrument_error = e.value]
         IN  ApplyEvents(next, Tail(events))

HasFollowup(events) == \E i \in 1..Len(events) : events[i].event = "followup"

\* a handler of sender s finished with result r: its events reach the tracker,
\* its messages the user, and a FollowupAction makes the calculation next
Deliver(s, name, r) ==
    /\ slots' = [slots EXCEPT ![s] = ApplyEvents(@, r.events)]
    /\ resp' = [resp EXCEPT ![s] =
                    [action |-> name, messages |-> r.messages,
                     events |-> r.events, fault |-> r.fault]]
    /\ pc' = [pc EXCEPT ![s] = IF HasFollowup(r.events) THEN "followup" ELSE "idle"]

\* --------------------------------------------------------------- actions
StoreMeasurements(s, m) ==
    /\ pc[s] = "idle"
    /\ turn' = [turn EXCEPT ![s] = <<STORE>>]
    /\ UNCHANGED <<calc, db, log>>
    /\ Deliver(s, STORE, StoreMeasurementsRun(m))

StoreInstrumentError(s, m) ==
    /\ pc[s] = "idle"
    /\ turn' = [turn EXCEPT ![s] = <<INSTR>>]
    /\ UNCHANGED <<calc, db, log>>
    /\ Deliver(s, INSTR, StoreInstrumentErrorRun(m))

ResetCalc(s) ==
    /\ pc[s] = "idle"
    /\ turn' = [turn EXCEPT ![s] = <<RESET>>]
    /\ UNCHANGED <<calc, db, log>>
    /\ Deliver(s, RESET, ResetCalcRun)

\* the calculation starts: as the follow-up of a store handler, or on its own
CalcTurn(s) ==
    IF pc[s] = "followup" THEN Append(turn[s], CALC) ELSE <<CALC>>

\* lines 231-236: no value in measurements_text
CalcNoValues(s) ==
    /\ pc[s] \in {"idle", "followup"}
    /\ CalcLocals(slots[s]).values = <<>>
    /\ turn' = [turn EXCEPT ![s] = CalcTurn(s)]
    /\ UNCHANGED <<calc, db, log>>
    /\ Deliver(s, CALC, Returned(<<Msg("no_values", <<>>)>>, <<>>))

\* line 239: stats raises OverflowError, nothing in run() catches it
CalcStatsRaises(s) ==
    /\ pc[s] \in {"idle", "followup"}
    /\ CalcLocals(slots[s]).values # <<>>
    /\ CalcLocals(slots[s]).raised
    /\ Deliver(s, CALC, Raised)
    /\ turn' = [turn EXCEPT ![s] = CalcTurn(s)]
    /\ UNCHANGED <<calc, db, log>>

\* (mutant) the early return on an empty value list is missing
CalcCompute_unguarded(s) ==
    /\ pc[s] \in {"idle", "followup"}
    /\ ~CalcLocals(slots[s]).raised
    /\ calc' = [calc EXCEPT ![s] = CalcLocals(slots[s])]
    /\ pc' = [pc EXCEPT ![s] = "create_run"]
    /\ turn' = [turn EXCEPT ![s] = CalcTurn(s)]
    /\ UNCHANGED <<slots, resp, db, log>>

\* lines 238-279: the statistics and the report lines are ready and init_db
\* (CREATE TABLE IF NOT EXISTS, no row changes) went through
CalcCompute(s) ==
    /\ pc[s] \in {"idle", "followup"}
    /\ CalcLocals(slots[s]).values # <<>>
    /\ ~CalcLocals(slots[s]).raised
    /\ calc' = [calc EXCEPT ![s] = CalcLocals(slots[s])]
    /\ pc' = [pc EXCEPT ![s] = "create_run"]
    /\ turn' = [turn EXCEPT ![s] = CalcTurn(s)]
    /\ UNCHANGED <<slots, resp, db, log>>

\* lines 238-279, 286-290: as CalcCompute, but init_db raises
CalcInitDbRaises(s) ==
    /\ pc[s] \in {"idle", "followup"}
    /\ CalcLocals(slots[s]).values # <<>>
    /\ ~CalcLocals(slots[s]).raised
    /\ turn' = [turn EXCEPT ![s] = CalcTurn(s)]
    /\ UNCHANGED <<calc, db, log>>
    /\ Deliver(s, CALC, Returned(<<Report(CalcLocals(slots[s]), TRUE)>>, <<>>))

\* line 280
CalcCreateRun(s) ==
    /\ pc[s] = "create_run"
    /\ Len(db.lab_runs) < MaxRuns
    /\ db' = create_run(db, s, calc[s].meas_text, calc[s].instr_f)
    /\ calc' = [calc EXCEPT ![s].run_id = lastrowid(db)]
    /\ pc' = [pc EXCEPT ![s] = "insert_measurements"]
    /\ UNCHANGED <<slots, resp, turn, log>>

\* line 281
CalcInsertMeasurements(s) ==
    /\ pc[s] = "insert_measurements"
    /\ db' = insert_measurements(db, calc[s].run_id, calc[s].values)
    /\ pc' = [pc EXCEPT ![s] = "save_results"]
    /\ UNCHANGED <<slots, calc, resp, turn, log>>

\* lines 282-290: the last persistence call, then the report
CalcSaveResults(s) ==
    /\ pc[s] = "save_results"
    /\ db' = save_results(db, calc[s].run_id, ResultFields(calc[s]))
    /\ Deliver(s, CALC, Returned(<<Report(calc[s], FALSE)>>, <<>>))
    /\ calc' = [calc EXCEPT ![s] = NoCalc]
    /\ UNCHANGED <<turn, log>>

\* (mutant) no try/except around the persistence calls
CalcStorageRaises_uncaught(s) ==
    /\ pc[s] \in {"create_run", "insert_measurements", "save_results"}
    /\ Deliver(s, CALC, Raised)
    /\ calc' = [calc EXCEPT ![s] = NoCalc]
    /\ UNCHANGED <<turn, db, log>>

\* lines 280-290: the persistence call the calculation stands before raises;
\* the call's transaction is not committed, the warning is appended
CalcStorageRaises(s) ==
    /\ pc[s] \in {"create_run", "insert_measurements", "save_results"}
    /\ Deliver(s, CALC, Returned(<<Report(calc[s], TRUE)>>, <<>>))
    /\ calc' = [calc EXCEPT ![s] = NoCalc]
    /\ UNCHANGED <<turn, db, log>>

Handlers(s, M) ==
    \/ \E m \in M : StoreMeasurements(s, m)
    \/ \E m \in M : StoreInstrumentError(s, m)
    \/ ResetCalc(s)
    \/ CalcNoValues(s)
    \/ CalcStatsRaises(s)
    \/ CalcCompute(s)
    \/ CalcInitDbRaises(s)
    \/ CalcCreateRun(s)
    \/ CalcInsertMeasurements(s)
    \/ CalcSaveResults(s)
    \/ CalcStorageRaises(s)

\* one conversation
Next == Handlers("a", Messages)

Spec == Init /\ [][Next]_vars

\* one conversation whose tracker starts with any slot values
SpecAnySlots == InitAnySlots /\ [][Next]_vars

\* one conversation whose measurement messages name several markers
NextSplit ==
    \/ \E m \in SplitMessages : StoreMeasurements("a", m)
    \/ ResetCalc("a")
    \/ CalcNoValues("a")
    \/ CalcCompute("a")
    \/ CalcInitDbRaises("a")
    \/ CalcCreateRun("a")
    \/ CalcInsertMeasurements("a")
    \/ CalcSaveResults("a")
    \/ CalcStorageRaises("a")

SpecSplit == Init /\ [][NextSplit]_vars

\* ------------------------------------------------ the web front end
\* the people typing into the page at the same time
WebUsers == {"u1", "u2"}

\* what each of them sends: each their own measurements
WebMessages(u) ==
    IF u = "u1"
    THEN { Some(<<Num(3), SP, Word("bagaj"), Num(-3)>>) }
    ELSE { Some(<<Num(-1), SP, Num(1)>>) }

\* the payload's sender id, the constant "web_user" for whoever sends the
\* message; the tracker it names is written "a"
web_user == "a"

\* chat_with_bot(message, history) called for user u: the message is posted
\* under the sender id web_user and the dialogue runs the handler the
\* message is taken for
chat_with_bot(u, message) ==
    \/ StoreMeasurements(web_user, message)
    \/ StoreInstrumentError(web_user, message)
    \/ ResetCalc(web_user)

\* the web users' messages, and the calculation steps of the turns they start
NextWeb ==
    \/ \E u \in WebUsers : \E m \in WebMessages(u) : chat_with_bot(u, m)
    \/ CalcNoValues(web_user)
    \/ CalcCompute(web_user)
    \/ CalcInitDbRaises(web_user)
    \/ CalcCreateRun(web_user)
    \/ CalcInsertMeasurements(web_user)
    \/ CalcSaveResults(web_user)
    \/ CalcStorageRaises(web_user)

SpecWeb == Init /\ [][NextWeb]_vars

\* two conversations, their handlers and persistence calls interleaved
NextConc ==
    \E s \in Senders :
        \/ \E m \in ConcMessages(s) : StoreMeasurements(s, m)
        \/ \E m \in ConcMessages(s) : StoreInstrumentError(s, m)
        \/ ResetCalc(s)
        \/ CalcNoValues(s)
        \/ CalcCompute(s)
        \/ CalcInitDbRaises(s)
        \/ CalcCreateRun(s)
        \/ CalcInsertMeasurements(s)
        \/ CalcSaveResults(s)
        \/ CalcStorageRaises(s)

SpecConc == Init /\ [][NextConc]_vars

\* ------------------------------------------- the run store called directly
\* result fields as calculations produce them
StoreFields ==
    { ResultFields(CalcLocals(sl)) :
        sl \in [measurements_text : {Some(<<Num(3), SP, Num(-1)>>)},
                instrument_error : {None, Some(FloatVal(Float(3)))}] }

StoreCreateRun(sender_id, text, instr) ==
    /\ Len(db.lab_runs) < MaxRuns
    /\ db' = create_run(db, sender_id, text, instr)
    /\ UNCHANGED <<slots, pc, calc, resp, turn, log>>

StoreInsertMeasurements(run_id, values) ==
    /\ db.meas_seq + Len(values) <= MaxRuns
    /\ db' = insert_measurements(db, run_id, values)
    /\ UNCHANGED <<slots, pc, calc, resp, turn, log>>

StoreSaveResults(run_id, f) ==
    /\ db.res_seq < MaxSaves
    /\ db' = save_results(db, run_id, f)
    /\ log' = Append(log, [run_id |-> run_id, f |-> f])
    /\ UNCHANGED <<slots, pc, calc, resp, turn>>

NextStore ==
    \/ \E i \in {None, Some(Float(3))} :
            StoreCreateRun("a", <<Num(3), SP, Num(-1)>>, i)
    \/ \E run_id \in 1..MaxRuns :
            StoreInsertMeasurements(run_id, <<Float(3), Float(-1)>>)
    \/ \E run_id \in 1..MaxRuns, f \in StoreFields : StoreSaveResults(run_id, f)

SpecStore == Init /\ [][NextStore]_vars

\* ================================================================ claims

\* ---------------------------------------------------------------------- C5
\* the save_results calls of the log made for run_id, in call order
SavesOf(run_id) == SelectSeq(log, LAMBDA c : c.run_id = run_id)

\* the results rows of run_id
ResultsOf(run_id) == {r \in db.results : r.run_id = run_id}

\* C5: save_results is an upsert keyed by run id.  After any sequence of
\* save_results calls, a run id that was saved has exactly one results row
\* and that row holds the values of the last call made for it (so a second
\* call for the same run id replaces the first call's row), while a run id
\* that was never saved has no row: calls for one run id leave the rows of
\* every other run id as they were.
C5_SaveResultsUpsert ==
    \A run_id \in 1..MaxRuns :
        LET saves == SavesOf(run_id)
        IN  IF saves = <<>> THEN ResultsOf(run_id) = {}
            ELSE /\ Cardinality(ResultsOf(run_id)) = 1
                 /\ \A r \in ResultsOf(run_id) :
                        r = ResultRow(r.id, run_id, saves[Len(saves)].f)

\* save_results was called twice for one run id with different values, and
\* another run id holds a row of its own
C5_Witness ==
    \E run_id \in 1..MaxRuns, other \in 1..MaxRuns :
        /\ other # run_id
        /\ Len(SavesOf(run_id)) >= 2
        /\ SavesOf(run_id)[1].f # SavesOf(run_id)[2].f
        /\ ResultsOf(other) # {}

\* ------------------------------------------------- reading a response
IsReport(r) ==
    /\ r.action = CALC
    /\ ~r.fault
    /\ Len(r.messages) = 1
    /\ r.messages[1].kind = "report"

\* the lines of the report a response carries
ReportOf(r) == r.messages[1].report[1]

Correctives == {"no_measurements", "no_instr_number", "no_values"}
Acknowledgments ==
    {"understood", "instr_taken", "ask_instr", "skipped", "instr_value",
     "calc_starting", "reset_ack"}

\* the response is exactly one corrective message, with no slot mutation
\* and no follow-up request
OneCorrective(r) ==
    /\ ~r.fault
    /\ Len(r.messages) = 1
    /\ r.messages[1].kind \in Correctives
    /\ r.events = <<>>

\* the numeric lexemes of a text, in order, as floats
NumbersIn(text) ==
    LET lits == SelectSeq(text, LAMBDA tok : tok.t = "num")
    IN  [k \in 1..Len(lits) |-> lits[k].v * Scale]

\* r = floor(sqrt(x))
IsRoot(r, x) == r >= 0 /\ r * r <= x /\ (r + 1) * (r + 1) > x

\* xbar is the arithmetic mean of the values (rounded down to the resolution)
IsMean(xbar, values) ==
    LET n == Len(values)
    IN  n * xbar <= Sum(values) /\ Sum(values) < n * (xbar + 1)

\* s is the sample standard deviation of the values around xbar: zero for a
\* single value, the root of the squared deviations over n - 1 otherwise
IsSampleStd(s, xbar, values) ==
    LET n == Len(values)
        sq == Sum([i \in 1..n |-> (values[i] - xbar) * (values[i] - xbar)])
    IN  IF n < 2 THEN s = 0 ELSE IsRoot(s, sq \div (n - 1))

\* ---------------------------------------------------------------------- C3
\* the message holds no number in its measurement segment
NoMeasurementNumber(m) ==
    NumbersIn(meas_part(Strip(OrEmpty(m)))) = <<>>

\* the message holds neither a skip keyword nor a number
NoSkipNoNumber(m) ==
    LET text == OrEmpty(m)
    IN  /\ \A i \in 1..Len(text) :
              LowerTok(text[i]).t \notin {"algas", "skip", "medehgui", "baihgui"}
        /\ NumbersIn(text) = <<>>

\* what a handler of sender s leaves when it only re-prompts
Reprompted(s) ==
    /\ OneCorrective(resp'[s])
    /\ pc'[s] = "idle"
    /\ slots' = slots
    /\ db' = db

\* C3: input-empty recovery.  The measurement handler on a message with no
\* number in the measurement segment, the instrument handler on a message with
\* neither a skip keyword nor a number, and the calculation on a
\* measurements_text that is absent or holds no number each emit exactly one
\* corrective message, return no event (no slot mutation, no follow-up), leave
\* both slots as they were and leave the run store without any new row.
C3_InputEmptyRecovery ==
    [][ \A s \in Senders :
          /\ \A m \in Messages :
                (StoreMeasurements(s, m) /\ NoMeasurementNumber(m)) => Reprompted(s)
          /\ \A m \in Messages :
                (StoreInstrumentError(s, m) /\ NoSkipNoNumber(m)) => Reprompted(s)
          /\ (/\ CalcNoValues(s) \/ CalcStatsRaises(s) \/ CalcCompute(s)
              /\ NumbersIn(OrEmpty(slots[s].measurements_text)) = <<>>)
                => Reprompted(s) ]_vars

\* a non-numeric first turn was answered: the session holds empty slots, the
\* store is empty and the one message is the corrective prompt
C3_Witness ==
    /\ turn["a"] = <<STORE>>
    /\ OneCorrective(resp["a"])
    /\ resp["a"].messages[1].kind = "no_measurements"
    /\ slots["a"] = EmptySlots
    /\ db = EmptyDb

\* ---------------------------------------------------------------------- C1
\* the turn of sender s is over and was a measurement message answered through
\* the shortcut: the store handler, then the calculation as its follow-up
ShortcutTurnOver(s) == turn[s] = <<STORE, CALC>> /\ pc[s] = "idle"

\* C1: single-message shortcut.  When the turn of a measurement message that
\* carried numbers before and after an instrument marker is over, the slots
\* hold the trimmed measurement text and the (absolute) first number of the
\* instrument segment, and the session is Reported: the turn's last response
\* is the report, with that instrument error incorporated (its line shown,
\* the total error the quadrature combination), reached without any
\* instrument-error turn.
C1_ShortcutReportsInOneTurn ==
    \A s \in Senders :
        ShortcutTurnOver(s) =>
            /\ slots[s].measurements_text # None
            /\ Strip(slots[s].measurements_text[1]) = slots[s].measurements_text[1]
            /\ FloatConverts(slots[s].instrument_error)
            /\ IsReport(resp[s])
            /\ ~ReportOf(resp[s]).no_instr_note
            /\ ReportOf(resp[s]).delta_instr = Some(slots[s].instrument_error[1].v)
            /\ IsRoot(ReportOf(resp[s]).delta_total,
                      ReportOf(resp[s]).delta_stat * ReportOf(resp[s]).delta_stat
                      + slots[s].instrument_error[1].v * slots[s].instrument_error[1].v)

\* ---------------------------------------------------------------------- C2
HasSkipKeyword(m) ==
    \E i \in 1..Len(OrEmpty(m)) :
        LowerTok(OrEmpty(m)[i]).t \in {"algas", "skip", "medehgui", "baihgui"}

\* the last response of sender s is the report of a calculation that followed
\* a skip message: the instrument handler asked for it and left the slot null
SkipReport(s) ==
    /\ IsReport(resp[s])
    /\ turn[s] = <<INSTR, CALC>>
    /\ slots[s].instrument_error = None

\* the report tells n, mean and standard deviation of the stored measurements
\* and no instrument error: the total error is the statistical error
ReportsStatisticsOnly(s) ==
    LET rep == ReportOf(resp[s])
        vals == NumbersIn(OrEmpty(slots[s].measurements_text))
    IN  /\ rep.n = Len(vals)
        /\ IsMean(rep.xbar, vals)
        /\ IsSampleStd(rep.s, rep.xbar, vals)
        /\ rep.delta_total = rep.delta_stat
        /\ rep.delta_instr = None
        /\ rep.no_instr_note
        /\ ~rep.warning =>
             \E r \in db.results :
                /\ r.run_id = Len(db.lab_runs)
                /\ r.n = rep.n /\ r.xbar = rep.xbar /\ r.s = rep.s
                /\ r.delta_total = r.delta_stat
                /\ r.used_instr = 0

C8_AlwaysAnswers ==
    \A s \in Senders :
        resp[s].action # "none" =>
            /\ ~resp[s].fault
            /\ Len(resp[s].messages) >= 1
            /\ \A i \in 1..Len(resp[s].messages) :
                  resp[s].messages[i].kind \in
                      Correctives \cup Acknowledgments \cup {"report"}

\* --------------------------------------------------------------------- C10
\* C10: at every report, used_instr is true exactly when the instrument_error
\* slot is present and converts to a number; then the instrument line is
\* shown and the total error is the quadrature combination of delta_stat and
\* the instrument error; otherwise the total error is delta_stat and no
\* instrument line is shown.
C10_UsedInstrIffConverts ==
    \A s \in Senders :
        IsReport(resp[s]) =>
            LET rep == ReportOf(resp[s])
                instr == slots[s].instrument_error
            IN  /\ ~rep.no_instr_note <=> FloatConverts(instr)
                /\ ~rep.no_instr_note =>
                      /\ rep.delta_instr = Some(instr[1].v)
                      /\ IsRoot(rep.delta_total,
                                rep.delta_stat * rep.delta_stat
                                + instr[1].v * instr[1].v)
                /\ rep.no_instr_note =>
                      /\ rep.delta_instr = None
                      /\ rep.delta_total = rep.delta_stat

\* ---------------------------------------------------------------------- C4
\* the report a response carries is the one the calculation derives from the
\* sender's two slots, and from nothing else
ReportFromSlots(s) ==
    \E warning \in BOOLEAN :
        resp[s].messages = <<Report(CalcLocals(slots[s]), warning)>>

\* C4: reset.  From any slot values the reset handler sets both slots to
\* absent, emits one acknowledgment, requests no follow-up and leaves every
\* row of the run store unchanged; and every report is computed from the
\* values the two slots hold at the calculation, so a report that follows a
\* reset rests only on values written after it.
C4_Reset ==
    /\ [](\A s \in Senders : IsReport(resp[s]) => ReportFromSlots(s))
    /\ [][ \A s \in Senders :
             ResetCalc(s) =>
                /\ slots'[s] = EmptySlots
                /\ ~resp'[s].fault
                /\ Len(resp'[s].messages) = 1
                /\ resp'[s].messages[1].kind = "reset_ack"
                /\ pc'[s] = "idle"
                /\ db' = db ]_vars

\* a reset was answered after a reported and stored run
C4_Witness ==
    /\ resp["a"].action = RESET
    /\ slots["a"] = EmptySlots
    /\ db.results # {}

\* ---------------------------------------------------------------------- C6
\* C6: a storage failure never blocks the report.  When a persistence call of
\* the calculation raises (init_db, create_run, insert_measurements or
\* save_results), the step ends normally with exactly one message, the report
\* with all the lines computed from the slots plus the warning, returns no
\* event and changes no slot.
C6_StorageFailureReported ==
    [][ \A s \in Senders :
          (CalcInitDbRaises(s) \/ CalcStorageRaises(s)) =>
             /\ ~resp'[s].fault
             /\ resp'[s].action = CALC
             /\ resp'[s].messages = <<Report(CalcLocals(slots[s]), TRUE)>>
             /\ resp'[s].events = <<>>
             /\ pc'[s] = "idle"
             /\ slots' = slots ]_vars

\* insert_measurements raised: the run row exists without measurements, and
\* the report with its warning was delivered
C6_Witness ==
    /\ IsReport(resp["a"])
    /\ ReportOf(resp["a"]).warning
    /\ ReportOf(resp["a"]).n = 2
    /\ Len(db.lab_runs) = 1
    /\ db.measurements = {}

\* ---------------------------------------------------------------------- C9
RunIds == 1..Len(db.lab_runs)

\* C9: referential invariant of the run store.  Every measurements row and
\* every results row carries the id of an existing lab_runs row, and no two
\* results rows share a run_id, whatever persistence call failed.
C9_Referential ==
    /\ \A r \in db.measurements : r.run_id \in RunIds
    /\ \A r \in db.results : r.run_id \in RunIds
    /\ \A r1, r2 \in db.results : r1.run_id = r2.run_id => r1 = r2

\* one run is complete and a later run lost its results to a failure
C9_Witness ==
    /\ Len(db.lab_runs) = 2
    /\ \E r \in db.results : r.run_id = 1
    /\ \E r \in db.measurements : r.run_id = 2
    /\ \A r \in db.results : r.run_id # 2

\* ---------------------------------------------------------------------- C7
\* the values a sender's own messages can put into one of its slots
SlotValuesOf(s, name) ==
    UNION { { r.events[i].value :
                i \in { j \in 1..Len(r.events) :
                          r.events[j].event = "slot" /\ r.events[j].name = name } } :
            r \in { StoreMeasurementsRun(m) : m \in ConcMessages(s) }
                    \cup { StoreInstrumentErrorRun(m) : m \in ConcMessages(s) } }

\* the slots a lab_runs row was computed from, read back from its columns
SlotsOfRun(row) ==
    [measurements_text |-> Some(row.measurements_text),
     instrument_error |-> IF row.instrument_error = None THEN None
                          ELSE Some(FloatVal(row.instrument_error[1]))]

\* the row holds text and instrument error of its own sender
RunOfItsSender(row) ==
    /\ Some(row.measurements_text) \in SlotValuesOf(row.sender_id, "measurements_text")
    /\ SlotsOfRun(row).instrument_error
          \in {None} \cup SlotValuesOf(row.sender_id, "instrument_error")

\* the measurements rows of run i are the values of that run's text, in
\* order, and its results row holds the statistics of those values
RowsOfRun(i) ==
    LET row == db.lab_runs[i]
        values == NumbersIn(row.measurements_text)
        meas == { r \in db.measurements : r.run_id = i }
    IN  /\ meas = {} \/ { <<r.idx, r.value>> : r \in meas }
                          = { <<k - 1, values[k]>> : k \in 1..Len(values) }
        /\ \A r \in db.results :
              r.run_id = i =>
                 r = ResultRow(r.id, i, ResultFields(CalcLocals(SlotsOfRun(row))))

Persisting == {"insert_measurements", "save_results"}

\* the senders whose slots, position, locals or response a step changes
Touched(s) ==
    \/ slots'[s] # slots[s]
    \/ pc'[s] # pc[s]
    \/ calc'[s] # calc[s]
    \/ resp'[s] # resp[s]

\* C7: sessions are isolated under every interleaving of their turns and of
\* their persistence calls.  A step of one session changes no other session's
\* slots, locals or response; a report is computed from its own session's
\* slots; every lab_runs row holds the text and instrument error of its
\* sender, its measurements rows are the values of that text and its results
\* row their statistics; every measurements and results row belongs to a run;
\* two calculations under way never hold the same run id, and the id a
\* calculation holds is the id of its own sender's row.
C7_SessionsIsolated ==
    /\ [](/\ \A s \in Senders : IsReport(resp[s]) => ReportFromSlots(s)
          /\ \A i \in 1..Len(db.lab_runs) :
                RunOfItsSender(db.lab_runs[i]) /\ RowsOfRun(i)
          /\ \A r \in db.measurements \cup db.results :
                r.run_id \in 1..Len(db.lab_runs)
          /\ \A s \in Senders :
                pc[s] \in Persisting =>
                   /\ calc[s].run_id \in 1..Len(db.lab_runs)
                   /\ db.lab_runs[calc[s].run_id].sender_id = s
          /\ \A s, t \in Senders :
                (s # t /\ pc[s] \in Persisting /\ pc[t] \in Persisting)
                   => calc[s].run_id # calc[t].run_id)
    /\ [][ \A s, t \in Senders : (Touched(s) /\ Touched(t)) => s = t ]_vars

\* both senders stand between their persistence calls, and the run one of
\* them created already has its measurements
C7_Witness ==
    /\ pc["a"] = "save_results"
    /\ pc["b"] = "insert_measurements"
    /\ calc["a"].run_id = 1
    /\ calc["b"].run_id = 2
    /\ \E r \in db.measurements : r.run_id = 1

\* --------------------------------------------------------------------- C11
\* no calculation stands between its persistence calls
NoCalcUnderWay == \A s \in Senders : pc[s] \notin Persisting \cup {"create_run"}

\* C11: persistence failures leave no partial state.  Whenever no calculation
\* is under way (each one completed, with or without a failed persistence
\* call, retried or not), every lab_runs row has its measurements rows and
\* exactly one results row.
C11_NoPartialRun ==
    NoCalcUnderWay =>
        \A i \in 1..Len(db.lab_runs) :
            /\ \E r \in db.measurements : r.run_id = i
            /\ Cardinality({ r \in db.results : r.run_id = i }) = 1

\* --------------------------------------------------------------------- C12
\* the lab_runs and measurements rows of d are all in e, unchanged
RowsKept(d, e) ==
    /\ Len(e.lab_runs) >= Len(d.lab_runs)
    /\ SubSeq(e.lab_runs, 1, Len(d.lab_runs)) = d.lab_runs
    /\ d.measurements \subseteq e.measurements

\* C12: a run is created once and never altered.  No step changes or deletes
\* an existing lab_runs or measurements row; of the steps of a calculation
\* only create_run adds a lab_runs row, exactly one, under an id no row of
\* the store has; so a calculation whose persistence calls all succeed adds
\* exactly one run, and a re-run on unchanged slots adds another.
C12_RunCreatedOnce ==
    [][ /\ RowsKept(db, db')
        /\ \A s \in Senders :
              /\ CalcCreateRun(s) =>
                    /\ Len(db'.lab_runs) = Len(db.lab_runs) + 1
                    /\ calc'[s].run_id = Len(db'.lab_runs)
                    /\ calc'[s].run_id \notin 1..Len(db.lab_runs)
              /\ (\/ CalcCompute(s) \/ CalcInsertMeasurements(s)
                  \/ CalcSaveResults(s) \/ CalcStorageRaises(s)
                  \/ CalcInitDbRaises(s))
                    => db'.lab_runs = db.lab_runs ]_vars

\* the calculation ran twice on the same slots: two runs with the same
\* contents, each with its own measurements and results
C12_Witness ==
    /\ Len(db.lab_runs) = 2
    /\ db.lab_runs[1] = db.lab_runs[2]
    /\ \A i \in 1..2 :
          /\ \E r \in db.measurements : r.run_id = i
          /\ \E r \in db.results : r.run_id = i

\* --------------------------------------------------------------------- C13
KeySet == { MarkerKeys[k] : k \in 1..Len(MarkerKeys) }

\* the positions (0-based) at which a configured marker occurs in the text
MarkerPositions(lower) == { i - 1 : i \in { j \in 1..Len(lower) : lower[j].t \in KeySet } }

\* more than one configured marker occurs in the message
SeveralMarkers(m) ==
    Cardinality({ key \in KeySet : Contains(Lower(Strip(OrEmpty(m))), key) }) > 1

\* the earliest occurrence, by position, of any configured marker
EarliestMarker(lower) ==
    CHOOSE i \in MarkerPositions(lower) : \A j \in MarkerPositions(lower) : i <= j

\* C13: with more than one configured marker in the message, the measurement
\* handler splits at the earliest marker occurrence by position: the numbers
\* it takes as measurements are those before that position, the text it
\* stores is the trimmed text before it, and the instrument error it takes is
\* the first number from that position on.
C13_SplitAtEarliestMarker ==
    [][ \A s \in Senders : \A m \in SplitMessages :
          (StoreMeasurements(s, m) /\ SeveralMarkers(m)) =>
             LET text == Strip(OrEmpty(m))
                 cut == EarliestMarker(Lower(text))
                 nums == extract_numbers(Before(text, cut))
                 instr_nums == extract_numbers(From(text, cut))
             IN  /\ nums = <<>> => OneCorrective(resp'[s])
                 /\ nums # <<>> =>
                       /\ resp'[s].messages[1] = Msg("understood", nums)
                       /\ slots'[s].measurements_text = Some(Strip(Before(text, cut)))
                 /\ (nums # <<>> /\ instr_nums # <<>>) =>
                       slots'[s].instrument_error = Some(FloatVal(Abs(instr_nums[1]))) ]_vars

\* --------------------------------------------------------------------- C14
\* an instrument_error slot that is absent or a non-negative number
AbsentOrNonNegative(instr) ==
    instr = None \/ (instr[1].t = "float" /\ instr[1].v >= 0)

\* the slot value for the first of the numbers, without its sign
AbsOfFirst(numbers) == Some(FloatVal(Abs(numbers[1])))

\* the messages an instrument turn takes a number from
InstrTurnNumbers ==
    { m \in Messages : ~HasSkipKeyword(m) /\ NumbersIn(Strip(OrEmpty(m))) # <<>> }

\* the messages with numbers in the measurement and in the instrument segment
BothSegmentsNumbers ==
    { m \in Messages : /\ NumbersIn(meas_part(Strip(OrEmpty(m)))) # <<>>
                       /\ NumbersIn(instr_part(Strip(OrEmpty(m)))) # <<>> }

\* C14: the instrument error is stored as the absolute value of the first
\* number of the instrument turn, or of the instrument segment of a
\* measurement message, further numbers being ignored; so, starting from
\* empty slots, the instrument_error slot is always absent or a non-negative
\* number.
C14_InstrumentErrorAbsolute ==
    /\ [](\A s \in Senders : AbsentOrNonNegative(slots[s].instrument_error))
    /\ [][ \A s \in Senders :
             /\ \A m \in InstrTurnNumbers :
                   StoreInstrumentError(s, m) =>
                      slots'[s].instrument_error
                         = AbsOfFirst(NumbersIn(Strip(OrEmpty(m))))
             /\ \A m \in BothSegmentsNumbers :
                   StoreMeasurements(s, m) =>
                      slots'[s].instrument_error
                         = AbsOfFirst(NumbersIn(instr_part(Strip(OrEmpty(m))))) ]_vars

\* an instrument turn whose message began with -3 and went on with other
\* numbers was answered: the slot holds 3
C14_Witness ==
    /\ resp["a"].action = INSTR
    /\ resp["a"].messages[1] = Msg("instr_value", <<Float(3)>>)
    /\ slots["a"].instrument_error = Some(FloatVal(Float(3)))
    /\ slots["a"].measurements_text = Some(<<Num(-3)>>)

\* --------------------------------------------------------------------- C15
\* the instrument handler has just processed a skip message
SkipProcessed(s) ==
    /\ resp[s].action = INSTR
    /\ Len(resp[s].messages) = 1
    /\ resp[s].messages[1].kind = "skipped"

\* the instrument-error value held while none was provided yet: after the
\* measurement handler stored measurements from empty slots, and after a reset
NotYetProvided == EmptySlots.instrument_error

\* C15: a skipped instrument error is distinguishable from one not yet
\* provided.  In the state reached when the instrument handler has processed
\* a skip message, the instrument_error slot holds a value different from the
\* one it holds before any instrument-error turn and after a reset.
C15_SkipDistinguishable ==
    \A s \in Senders :
        SkipProcessed(s) => slots[s].instrument_error # NotYetProvided

\* --------------------------------------------------------------------- C16
\* the steps of the calculation that pass the call of stats (line 239)
CallsStats(s) == CalcStatsRaises(s) \/ CalcCompute(s) \/ CalcInitDbRaises(s)

\* C16: stats is invoked only with at least one value.  Every step of the
\* calculation that passes the call of stats reads a measurements_text with
\* at least one number, and the locals and the report that come out of it
\* have n >= 1.
C16_StatsNeverOnEmpty ==
    /\ [](\A s \in Senders :
            /\ pc[s] \in Persisting \cup {"create_run"} => calc[s].n >= 1
            /\ IsReport(resp[s]) => ReportOf(resp[s]).n >= 1)
    /\ [][ \A s \in Senders :
             CallsStats(s) =>
                Len(NumbersIn(OrEmpty(slots[s].measurements_text))) >= 1 ]_vars

\* stats was invoked with a single value and the calculation goes on
C16_Witness ==
    /\ pc["a"] = "create_run"
    /\ calc["a"].n = 1
    /\ calc["a"].values = <<Float(-3)>>

\* --------------------------------------------------------------------- C17
MeasurementsOf(i) == { r \in db.measurements : r.run_id = i }

\* the three persistence calls of run i succeeded: its results row is there
Persisted(i) == \E r \in db.results : r.run_id = i

\* C17: for every run whose three persistence calls succeeded, results.n is
\* the number of values in the stored measurements_text and the number of
\* measurements rows of the run, and those rows carry the values in
\* extraction order under idx 0, 1, ..., n-1, each index once.
C17_CountsAndIndexes ==
    \A i \in 1..Len(db.lab_runs) :
        Persisted(i) =>
            LET values == NumbersIn(db.lab_runs[i].measurements_text)
                n == Len(values)
            IN  /\ \A r \in db.results : r.run_id = i => r.n = n
                /\ Cardinality(MeasurementsOf(i)) = n
                /\ \A k \in 0..(n - 1) :
                      \E r \in MeasurementsOf(i) : r.idx = k /\ r.value = values[k + 1]
                /\ \A r \in MeasurementsOf(i) : r.idx \in 0..(n - 1)

\* a run of two different values was persisted whole
C17_Witness ==
    /\ Len(db.lab_runs) >= 1
    /\ Persisted(1)
    /\ NumbersIn(db.lab_runs[1].measurements_text) = <<Float(3), Float(-1)>>
    /\ Cardinality(MeasurementsOf(1)) = 2

StoredMeasurementsOnly(s) ==
    /\ resp[s].action = STORE
    /\ \E i \in 1..Len(resp[s].events) :
          /\ resp[s].events[i].event = "slot"
          /\ resp[s].events[i].name = "measurements_text"
    /\ ~HasFollowup(resp[s].events)

\* C19: no stale instrument error.  A calculation invoked right after a
\* measurement set was stored without an instrument error (none in the same
\* message, no instrument turn since) incorporates no instrument error: one
\* left in the slot by an earlier run is not combined with the new set.
C19_NoStaleInstrumentError ==
    [][ \A s \in Senders :
          (CalcCompute(s) /\ StoredMeasurementsOnly(s))
             => ~calc'[s].used_instr ]_vars

\* --------------------------------------------------------------------- C20
\* the values a web user's own messages can put into a slot
WebSlotValues(u, name) ==
    UNION { { r.events[i].value :
                i \in { j \in 1..Len(r.events) :
                          r.events[j].event = "slot" /\ r.events[j].name = name } } :
            r \in { StoreMeasurementsRun(m) : m \in WebMessages(u) }
                    \cup { StoreInstrumentErrorRun(m) : m \in WebMessages(u) } }

\* the slots hold measurements and instrument error of the one user u
SlotsOfUser(sl, u) ==
    /\ sl.measurements_text \in WebSlotValues(u, "measurements_text")
    /\ sl.instrument_error \in {None} \cup WebSlotValues(u, "instrument_error")

\* C20: two users of the web front end are two sessions.  Every report the
\* front end delivers is computed from the measurements and the instrument
\* error of one user only, the one it is delivered to, never from a value the
\* other user sent.
C20_WebUsersIsolated ==
    \A s \in Senders :
        IsReport(resp[s]) => \E u \in WebUsers : SlotsOfUser(slots[s], u)

=============================================================================
